---- MODULE Spec2Model ----
(***************************************************************************)
(* Model of src/LLM.py: select_targets and its helpers parse_filename,     *)
(* sort_key and encode_image.  Python strings are TLA+ strings; Python's   *)
(* None is the string None for string-valued variables and the empty       *)
(* sequence for object-valued ones (crop, bbox).                           *)
(***************************************************************************)
EXTENDS Integers, Sequences, FiniteSets, TLC

VARIABLES
    pc,                 \* position in select_targets
    crops_dir,          \* argument: the directory, [path, exists, listing]
    prompt,             \* argument: the query text
    crop_info,          \* argument: None (<<>>) or a list of metadata records
    img_w,              \* argument: img_size["img_w"]
    files,              \* line 94
    selected_ids,       \* line 107
    p,                  \* line 111
    is_directional,     \* line 112
    target_llm_answer,  \* lines 117, 163, 188
    preloop_answer,     \* history: target_llm_answer as line 130 leaves it
    idx,                \* loop counter of line 133
    person_id,          \* line 135
    frame_id,           \* line 135
    crop,               \* line 140
    bbox,               \* line 141
    position_desc,      \* lines 197-202
    llm_prompt,         \* lines 169, 213
    resp,               \* line 238: the response being streamed
    result_text,        \* line 245
    clean_response,     \* line 264
    is_selected,        \* line 265
    exc,                \* the exception that left select_targets, or None
    returned,           \* the value select_targets returned, once pc = "done"
    trace               \* history: what happened to each file, in order

vars == <<pc, crops_dir, prompt, crop_info, img_w, files, selected_ids, p,
          is_directional, target_llm_answer, preloop_answer, idx, person_id,
          frame_id, crop, bbox, position_desc, llm_prompt, resp, result_text,
          clean_response, is_selected, exc, returned, trace>>

None == "None"

----------------------------------------------------------------------------
(* Bounds of the model.                                                    *)

\* most entries of a directory in the enumeration specification
MaxListing == 3
\* most entries of a directory in a full run
MaxFiles == 2
\* largest pixel coordinate and image width in the band specification
MaxPixel == 10

----------------------------------------------------------------------------
(* Python str operations.                                                  *)

Char(s, i) == SubSeq(s, i, i)

LowerLetters == "abcdefghijklmnopqrstuvwxyz"
UpperLetters == "ABCDEFGHIJKLMNOPQRSTUVWXYZ"
Digits == "0123456789"

CharsOf(alphabet) == { Char(alphabet, i) : i \in 1..Len(alphabet) }

\* the character of `to` at the place c has in `from`
Translate(from, to) ==
    [c \in CharsOf(from) |->
        Char(to, CHOOSE i \in 1..Len(from) : Char(from, i) = c)]

ToLower == Translate(UpperLetters, LowerLetters)
ToUpper == Translate(LowerLetters, UpperLetters)
DigitValue == [c \in CharsOf(Digits) |-> (CHOOSE i \in 1..Len(Digits) : Char(Digits, i) = c) - 1]

IsDigit(c) == c \in DOMAIN DigitValue

\* \w of the re module, on the ASCII texts of the model
WordChars == CharsOf(LowerLetters) \cup CharsOf(UpperLetters) \cup CharsOf(Digits) \cup {"_"}
IsWordChar(c) == c \in WordChars

IsSpace(c) == c \in {" ", "\n", "\t", "\r"}

RECURSIVE MapChars(_, _)
MapChars(s, table) ==
    IF s = "" THEN ""
    ELSE LET c == Char(s, 1)
         IN  (IF c \in DOMAIN table THEN table[c] ELSE c) \o MapChars(Tail(s), table)

\* str.lower and str.upper
Lower(s) == MapChars(s, ToLower)
Upper(s) == MapChars(s, ToUpper)

\* str.strip
RECURSIVE LStrip(_)
LStrip(s) == IF s # "" /\ IsSpace(Char(s, 1)) THEN LStrip(Tail(s)) ELSE s
RECURSIVE RStrip(_)
RStrip(s) ==
    IF s # "" /\ IsSpace(Char(s, Len(s)))
    THEN RStrip(SubSeq(s, 1, Len(s) - 1)) ELSE s
Strip(s) == RStrip(LStrip(s))

\* sub in s
Contains(sub, s) ==
    \E i \in 1..(Len(s) - Len(sub) + 1) : SubSeq(s, i, i + Len(sub) - 1) = sub

\* s.endswith(suffix)
EndsWith(s, suffix) ==
    /\ Len(s) >= Len(suffix)
    /\ SubSeq(s, Len(s) - Len(suffix) + 1, Len(s)) = suffix

\* re.search(r"\b" + re.escape(token) + r"\b", s), token made of word characters
WordSearch(token, s) ==
    \E i \in 1..(Len(s) - Len(token) + 1) :
        /\ SubSeq(s, i, i + Len(token) - 1) = token
        /\ (i = 1 \/ ~IsWordChar(Char(s, i - 1)))
        /\ (i + Len(token) - 1 = Len(s) \/ ~IsWordChar(Char(s, i + Len(token))))

\* int(digits)
RECURSIVE ToInt(_)
ToInt(s) ==
    IF s = "" THEN 0
    ELSE 10 * ToInt(SubSeq(s, 1, Len(s) - 1)) + DigitValue[Char(s, Len(s))]

\* the end of the longest run of digits of s that starts at position i (i - 1 if none)
RECURSIVE DigitsEnd(_, _)
DigitsEnd(s, i) ==
    IF i <= Len(s) /\ IsDigit(Char(s, i)) THEN DigitsEnd(s, i + 1) ELSE i - 1

\* os.path.basename
RECURSIVE basename(_)
basename(x) ==
    IF Contains("/", x) THEN basename(Tail(x)) ELSE x

----------------------------------------------------------------------------
(* parse_filename and sort_key.                                            *)

\* re.match(r"i(\d+)_f(\d+)", fname): the spans of the two groups, or <<>>
MatchGroups(fname) ==
    LET e1 == DigitsEnd(fname, 2)
        e2 == DigitsEnd(fname, e1 + 3)
    IN  IF /\ Len(fname) >= 1 /\ Char(fname, 1) = "i"
           /\ e1 >= 2
           /\ SubSeq(fname, e1 + 1, e1 + 2) = "_f"
           /\ e2 >= e1 + 3
        THEN <<SubSeq(fname, 2, e1), SubSeq(fname, e1 + 3, e2)>>
        ELSE <<>>

parse_filename(fname) ==
    LET match == MatchGroups(fname)
    IN  IF match # <<>> THEN <<ToInt(match[1]), ToInt(match[2])>> ELSE <<-1, -1>>

\* the key with the person and the frame swapped
sort_key_swapped(x) == parse_filename(basename(x))

sort_key(x) ==
    LET parsed == parse_filename(basename(x))
    IN  <<parsed[2], parsed[1]>>

\* comparison of two tuples of two integers, as Python orders them
TupleLess(a, b) == a[1] < b[1] \/ (a[1] = b[1] /\ a[2] < b[2])

\* sorted(xs, key=sort_key): a stable sort
RECURSIVE InsertSorted(_, _)
InsertSorted(sorted, x) ==
    IF sorted = <<>> THEN <<x>>
    ELSE LET last == sorted[Len(sorted)]
         IN  IF TupleLess(sort_key(x), sort_key(last))
             THEN Append(InsertSorted(SubSeq(sorted, 1, Len(sorted) - 1), x), last)
             ELSE Append(sorted, x)

RECURSIVE SortedByKey(_)
SortedByKey(xs) ==
    IF xs = <<>> THEN <<>>
    ELSE InsertSorted(SortedByKey(SubSeq(xs, 1, Len(xs) - 1)), xs[Len(xs)])

\* the list comprehension of lines 95-100 over os.listdir(crops_dir)
RECURSIVE ImagePaths(_, _)
ImagePaths(dir, listing) ==
    IF listing = <<>> THEN <<>>
    ELSE LET f == Head(listing)
             rest == ImagePaths(dir, Tail(listing))
         IN  IF f.isfile /\ (EndsWith(f.name, ".jpg") \/ EndsWith(f.name, ".png"))
             THEN <<dir \o "/" \o f.name>> \o rest
             ELSE rest

\* lines 94-102
ListFiles(dir) == SortedByKey(ImagePaths(dir.path, dir.listing))

----------------------------------------------------------------------------
(* Module constants of LLM.py.                                             *)

DIRECTIONAL_PROMPTS ==
    << "cars-in-the-counter-direction-of-ours",
       "cars-in-the-same-direction-of-ours" >>

\* the dict in insertion order, which is its iteration order
DIRECTION_MAP ==
    << <<"cars-in-the-counter-direction-of-ours", "TOWARDS">>,
       <<"cars-in-the-same-direction-of-ours", "AWAY">>,
       <<"counter-direction", "TOWARDS">>,
       <<"same-direction", "AWAY">>,
       <<"counter", "TOWARDS">>,
       <<"same", "AWAY">> >>

\* the default of img_size["img_w"]
DefaultImgW == 1242

----------------------------------------------------------------------------
(* The classification of the query, lines 111-130.                         *)

\* any(x in p for x in DIRECTIONAL_PROMPTS)
IsDirectional(q) ==
    \E i \in 1..Len(DIRECTIONAL_PROMPTS) : Contains(DIRECTIONAL_PROMPTS[i], q)

\* DIRECTION_MAP.get(key)
MapGet(key) ==
    IF \E i \in 1..Len(DIRECTION_MAP) : DIRECTION_MAP[i][1] = key
    THEN DIRECTION_MAP[CHOOSE i \in 1..Len(DIRECTION_MAP) : DIRECTION_MAP[i][1] = key][2]
    ELSE None

\* the loop of lines 121-124, from the i-th item on
RECURSIVE FirstKeyIn(_, _)
FirstKeyIn(q, i) ==
    IF i > Len(DIRECTION_MAP) THEN None
    ELSE IF Contains(DIRECTION_MAP[i][1], q) THEN DIRECTION_MAP[i][2]
    ELSE FirstKeyIn(q, i + 1)

\* the loop of lines 127-130, from the i-th canonical prompt on
RECURSIVE FirstCanonical(_, _)
FirstCanonical(q, i) ==
    IF i > Len(DIRECTIONAL_PROMPTS) THEN None
    ELSE IF Strip(q) = DIRECTIONAL_PROMPTS[i] THEN MapGet(DIRECTIONAL_PROMPTS[i])
    ELSE FirstCanonical(q, i + 1)

\* target_llm_answer as lines 117-130 leave it
ResolveAnswer(q, directional) ==
    IF ~directional THEN None
    ELSE IF FirstKeyIn(q, 1) # None THEN FirstKeyIn(q, 1)
    ELSE FirstCanonical(q, 1)

----------------------------------------------------------------------------
(* The horizontal band, lines 192-202.  The quotients are kept as exact    *)
(* fractions with a positive denominator; 0.35 and 0.65 are 35/100 and     *)
(* 65/100.                                                                 *)

Frac(n, d) == [num |-> n, den |-> d]
FracLess(a, b) == a.num * b.den < b.num * a.den

\* line 192
CenterX(box) == Frac(box.x1 + box.x2, 2)
\* line 194
RelX(box, width) == Frac(CenterX(box).num, CenterX(box).den * width)

\* the bands with the boundaries counted to the sides
PositionDescInclusive(rel_x) ==
    IF ~FracLess(Frac(35, 100), rel_x) THEN "on the left side of the road"
    ELSE IF ~FracLess(rel_x, Frac(65, 100)) THEN "on the right side of the road"
    ELSE "in the center or directly ahead"

\* lines 197-202
PositionDesc(rel_x) ==
    IF FracLess(rel_x, Frac(35, 100)) THEN "on the left side of the road"
    ELSE IF FracLess(Frac(65, 100), rel_x) THEN "on the right side of the road"
    ELSE "in the center or directly ahead"

----------------------------------------------------------------------------
(* The metadata join, lines 140-155.                                       *)

\* the first item of crop_info whose crop_path has the file's basename
RECURSIVE FindCrop(_, _)
FindCrop(info, file_name) ==
    IF info = <<>> THEN <<>>
    ELSE IF file_name = basename(Head(info).crop_path) THEN <<Head(info)>>
    ELSE FindCrop(Tail(info), file_name)

\* line 151-152
BBoxOf(c) == IF c # <<>> /\ c[1].has_bbox THEN c[1].bbox ELSE <<>>

\* crop.get_class(crop.cls): the class table of the tracker
ClassNames == <<"car", "person">>
get_class(cls) == ClassNames[cls]

\* line 155
ObjectType(c) == IF c = <<>> THEN "object" ELSE get_class(c[1].cls)

\* lines 169-183 and 204-226: the template and what is filled into it
BuildPrompt(directional, object_type, pid, box, width, question) ==
    IF directional
    THEN [template |-> "directional", object_type |-> object_type,
          tracking_id |-> pid, location |-> None, question |-> None]
    ELSE [template |-> "general", object_type |-> object_type,
          tracking_id |-> None,
          location |-> IF box # <<>> THEN PositionDesc(RelX(box[1], width)) ELSE None,
          question |-> question]

----------------------------------------------------------------------------
(* The streamed response, lines 245-254.  A line is what iter_lines        *)
(* yields: empty, or bytes that decode or not, that parse as JSON or not,  *)
(* and the JSON value they parse to.                                       *)

JDict(keys, resp_value) == [t |-> "dict", keys |-> keys, s |-> "", resp |-> resp_value]
JStr(s) == [t |-> "str", keys |-> {}, s |-> s, resp |-> None]
JList(elems) == [t |-> "list", keys |-> elems, s |-> "", resp |-> None]
JNum == [t |-> "int", keys |-> {}, s |-> "", resp |-> None]
JNull == [t |-> "NoneType", keys |-> {}, s |-> "", resp |-> None]

Line(bytes, json) == [bytes |-> bytes, json |-> json]
EmptyLine == Line("empty", JNull)
BadUtf8Line == Line("not utf-8", JNull)
BadJsonLine == Line("not json", JNull)
\* {"response": text, "done": false}
Chunk(text) == Line("json", JDict({"response", "done"}, JStr(text)))

\* "response" in data: TRUE, FALSE or the TypeError of a value that is no container
InData(data) ==
    CASE data.t = "dict" -> IF "response" \in data.keys THEN "True" ELSE "False"
      [] data.t = "list" -> IF "response" \in data.keys THEN "True" ELSE "False"
      [] data.t = "str"  -> IF Contains("response", data.s) THEN "True" ELSE "False"
      [] OTHER -> "TypeError"

\* one pass of the body of the loop of line 247: the text after it, or the
\* exception that leaves the loop
LineStep(text, line) ==
    IF line.bytes = "empty" THEN [text |-> text, exc |-> None]
    ELSE IF line.bytes \in {"not utf-8", "not json"} THEN [text |-> text, exc |-> None]
    ELSE LET data == line.json IN
         IF InData(data) = "TypeError" THEN [text |-> text, exc |-> "TypeError"]
         ELSE IF InData(data) = "False" THEN [text |-> text, exc |-> None]
         ELSE IF data.t # "dict" THEN [text |-> text, exc |-> "TypeError"]
         ELSE IF data.resp.t # "str" THEN [text |-> text, exc |-> "TypeError"]
         ELSE [text |-> text \o data.resp.s, exc |-> None]

\* the loop of line 247 over the lines the connection delivers; a connection
\* that breaks makes iter_lines raise after the lines it delivered
RECURSIVE ReadLines(_, _, _)
ReadLines(text, lines, broken) ==
    IF lines = <<>>
    THEN [text |-> text, exc |-> IF broken THEN "ChunkedEncodingError" ELSE None]
    ELSE LET r == LineStep(text, Head(lines))
         IN  IF r.exc # None THEN r
             ELSE ReadLines(r.text, Tail(lines), broken)

----------------------------------------------------------------------------
(* The decision, lines 264-289.                                            *)

Decision(directional, answer, q, clean) ==
    IF directional
    THEN IF answer # None /\ answer # ""
         THEN WordSearch(answer, clean)
         ELSE \/ Contains("counter", q) /\ WordSearch("TOWARDS", clean)
              \/ /\ Contains("same", q) \/ Contains("same-direction", q)
                 /\ WordSearch("AWAY", clean)
    ELSE WordSearch("YES", clean)

\* a list that keeps one entry per value
AppendUnique(ids, id) ==
    IF \E i \in 1..Len(ids) : ids[i] = id THEN ids ELSE Append(ids, id)

\* line 292
AppendSelected(ids, id) == Append(ids, id)

\* a failed request asked again
RetryIndex(i) == i

\* line 243: continue, to the next file of the loop of line 133
ContinueIndex(i) == i + 1

----------------------------------------------------------------------------
(* The inputs the specifications draw from.                                *)

\* a directory entry: its name, whether os.path.isfile holds of it, and
\* whether PIL can open it
Entry(name, isfile, decodable) ==
    [name |-> name, isfile |-> isfile, decodable |-> decodable]

\* the entries of the directories of a full run
RunEntries ==
    { Entry("i1_f1.jpg", TRUE, TRUE),
      Entry("i1_f2.png", TRUE, TRUE),
      Entry("photo.jpg", TRUE, TRUE),
      Entry("i2_f1.jpg", TRUE, FALSE) }

\* the entries of the directories of the enumeration
EnumEntries ==
    { Entry("i2_f1.jpg", TRUE, TRUE),
      Entry("i1_f1.jpg", TRUE, TRUE),
      Entry("i1_f2.jpg", TRUE, TRUE),
      Entry("i10_f1.png", TRUE, TRUE),
      Entry("photo.jpg", TRUE, TRUE),
      Entry("notes.txt", TRUE, TRUE),
      Entry("i0_f0.jpg", FALSE, TRUE) }

\* what os.listdir may return: the entries of a directory in any order
Listings(entries, n) ==
    { l \in UNION { [1..k -> entries] : k \in 0..n } :
        \A i, j \in 1..Len(l) : i # j => l[i] # l[j] }

Directory(exists, listing) ==
    [path |-> "/crops", exists |-> exists, listing |-> listing]

RunDirs ==
    { Directory(FALSE, <<>>) }
    \cup { Directory(TRUE, l) : l \in Listings(RunEntries, MaxFiles) }

EnumDirs == { Directory(TRUE, l) : l \in Listings(EnumEntries, MaxListing) }

Prompts ==
    { "cars-in-the-counter-direction-of-ours",
      "Cars-In-The-Same-Direction-Of-Ours",
      "cars-in-the-counter-direction-of-ours, same lane",
      "car on the left" }

Box(x1, x2) == [x1 |-> x1, y1 |-> 0, x2 |-> x2, y2 |-> 100]

Meta(path, has_bbox, box, cls) ==
    [crop_path |-> path, has_bbox |-> has_bbox, bbox |-> box, cls |-> cls]

\* crop_info: None, or records of the tracker (one without a bbox attribute,
\* two for the same crop, of which the first is taken)
CropInfos ==
    { <<>>,
      << Meta("out/photo.jpg", FALSE, <<>>, 2),
         Meta("out/i1_f1.jpg", TRUE, <<Box(100, 300)>>, 1),
         Meta("old/i1_f1.jpg", TRUE, <<Box(1000, 1200)>>, 1),
         Meta("out/i1_f2.png", TRUE, <<Box(600, 700)>>, 1) >> }

\* a response body: the lines it delivers and whether the connection breaks
\* after them
Body(lines, broken) == [status |-> "open", lines |-> lines, broken |-> broken]
NoResponse == [status |-> "unset", lines |-> <<>>, broken |-> FALSE]

Bodies ==
    { Body(<<Chunk("The vehicle is clearly TOW"), Chunk("ARDS us")>>, FALSE),
      Body(<<Chunk("AWAY")>>, FALSE),
      Body(<<EmptyLine, BadUtf8Line, Chunk(" yes"), BadJsonLine,
             Line("json", JDict({"done"}, JNull)), Line("json", JList({})),
             Chunk("\n")>>, FALSE),
      Body(<<Chunk("{\"match\": true, \"reason\": \"left side car\"}")>>, FALSE),
      Body(<<Chunk("YES, towards. {\"match\": false}")>>, FALSE),
      Body(<<Chunk("yesterday: untowards")>>, FALSE),
      Body(<<Chunk("yes"), Line("json", JNum)>>, FALSE),
      Body(<<Chunk("TOWARDS")>>, TRUE) }

\* what the request of lines 238-239 may end in
RequestFailures == {"ConnectionError", "HTTPError"}

----------------------------------------------------------------------------
(* The state before select_targets runs.                                   *)

Event(ev, i, f, sel) == [ev |-> ev, idx |-> i, fname |-> f, selected |-> sel]

InitLocals ==
    /\ files = <<>>
    /\ selected_ids = <<>>
    /\ p = None
    /\ is_directional = FALSE
    /\ target_llm_answer = None
    /\ preloop_answer = None
    /\ idx = 0
    /\ person_id = None
    /\ frame_id = None
    /\ crop = <<>>
    /\ position_desc = None
    /\ llm_prompt = None
    /\ resp = NoResponse
    /\ result_text = None
    /\ clean_response = None
    /\ is_selected = FALSE
    /\ exc = None
    /\ returned = None
    /\ trace = <<>>

Init ==
    /\ pc = "start"
    /\ crops_dir \in RunDirs
    /\ prompt \in Prompts
    /\ crop_info \in CropInfos
    /\ img_w = DefaultImgW
    /\ bbox = <<>>
    /\ InitLocals

----------------------------------------------------------------------------
(* select_targets, step by step.                                           *)

\* lines 91-130: the early returns, the enumeration, the query's class
Start ==
    /\ pc = "start"
    /\ IF ~crops_dir.exists \/ ListFiles(crops_dir) = <<>>
       THEN /\ pc' = "done"
            /\ returned' = <<>>
            /\ files' = IF crops_dir.exists THEN <<>> ELSE files
            /\ UNCHANGED <<selected_ids, p, is_directional, target_llm_answer,
                           preloop_answer, idx>>
       ELSE /\ pc' = "loop"
            /\ files' = ListFiles(crops_dir)
            /\ selected_ids' = <<>>
            /\ p' = Lower(prompt)
            /\ is_directional' = IsDirectional(Lower(prompt))
            /\ target_llm_answer' =
                   ResolveAnswer(Lower(prompt), IsDirectional(Lower(prompt)))
            /\ preloop_answer' =
                   ResolveAnswer(Lower(prompt), IsDirectional(Lower(prompt)))
            /\ idx' = 1
            /\ UNCHANGED returned
    /\ UNCHANGED <<crops_dir, prompt, crop_info, img_w, person_id, frame_id, crop,
                   bbox, position_desc, llm_prompt, resp, result_text,
                   clean_response, is_selected, exc, trace>>

\* lines 133-226: the next file, its metadata and its prompt
LoopHead ==
    /\ pc = "loop"
    /\ idx <= Len(files)
    /\ LET f == files[idx]
           fname == basename(f)
           parsed == parse_filename(fname)
           found == IF crop_info # <<>> THEN FindCrop(crop_info, basename(f)) ELSE <<>>
           box == BBoxOf(found)
       IN  /\ person_id' = parsed[1]
           /\ frame_id' = parsed[2]
           /\ crop' = found
           /\ bbox' = box
           /\ target_llm_answer' = IF is_directional THEN None ELSE "YES"
           /\ position_desc' =
                  IF ~is_directional /\ box # <<>>
                  THEN PositionDesc(RelX(box[1], img_w)) ELSE position_desc
           /\ llm_prompt' = BuildPrompt(is_directional, ObjectType(found), parsed[1],
                                        box, img_w, prompt)
           /\ trace' = Append(trace, Event("file", idx, fname, FALSE))
    /\ pc' = "encode"
    /\ UNCHANGED <<crops_dir, prompt, crop_info, img_w, files, selected_ids, p,
                   is_directional, preloop_answer, idx, resp, result_text,
                   clean_response, is_selected, exc, returned>>

\* whether Image.open of encode_image (line 36) can read the file
Decodable(f) ==
    \E e \in 1..Len(crops_dir.listing) :
        /\ crops_dir.listing[e].name = basename(f)
        /\ crops_dir.listing[e].decodable

\* lines 231-235: the payload; encode_image raises on a file PIL cannot read
Encode ==
    /\ pc = "encode"
    /\ IF Decodable(files[idx])
       THEN pc' = "post" /\ UNCHANGED exc
       ELSE pc' = "raised" /\ exc' = "UnidentifiedImageError"
    /\ UNCHANGED <<crops_dir, prompt, crop_info, img_w, files, selected_ids, p,
                   is_directional, target_llm_answer, preloop_answer, idx,
                   person_id, frame_id, crop, bbox, position_desc, llm_prompt,
                   resp, result_text, clean_response, is_selected, returned, trace>>

\* lines 237-243: the request; a failure is caught and the file skipped
Post ==
    /\ pc = "post"
    /\ LET fname == basename(files[idx])
           posted == Append(trace, Event("post", idx, fname, FALSE))
       IN  \/ /\ \E e \in RequestFailures :
                    trace' = Append(posted, Event("failed", idx, fname, FALSE))
              /\ idx' = ContinueIndex(idx)
              /\ pc' = "loop"
              /\ UNCHANGED resp
           \/ /\ \E body \in Bodies : resp' = body
              /\ trace' = posted
              /\ pc' = "stream"
              /\ UNCHANGED idx
    /\ UNCHANGED <<crops_dir, prompt, crop_info, img_w, files, selected_ids, p,
                   is_directional, target_llm_answer, preloop_answer, person_id,
                   frame_id, crop, bbox, position_desc, llm_prompt, result_text,
                   clean_response, is_selected, exc, returned>>

\* lines 245-254: the reply text; what the loop does not catch leaves
\* select_targets
ReadStream ==
    /\ pc = "stream"
    /\ LET r == ReadLines("", resp.lines, resp.broken)
       IN  /\ result_text' = r.text
           /\ resp' = [resp EXCEPT !.status = "read"]
           /\ IF r.exc = None
              THEN pc' = "decide" /\ UNCHANGED exc
              ELSE pc' = "raised" /\ exc' = r.exc
    /\ UNCHANGED <<crops_dir, prompt, crop_info, img_w, files, selected_ids, p,
                   is_directional, target_llm_answer, preloop_answer, idx,
                   person_id, frame_id, crop, bbox, position_desc, llm_prompt,
                   clean_response, is_selected, returned, trace>>

\* lines 264-296: the decision, and the track id of a selected file
Decide ==
    /\ pc = "decide"
    /\ LET clean == Upper(Strip(result_text))
           sel == Decision(is_directional, target_llm_answer, p, clean)
       IN  /\ clean_response' = clean
           /\ is_selected' = sel
           /\ selected_ids' =
                  IF sel THEN AppendSelected(selected_ids, person_id) ELSE selected_ids
           /\ trace' = Append(trace, Event("decided", idx, basename(files[idx]), sel))
    /\ idx' = idx + 1
    /\ pc' = "loop"
    /\ UNCHANGED <<crops_dir, prompt, crop_info, img_w, files, p, is_directional,
                   target_llm_answer, preloop_answer, person_id, frame_id, crop,
                   bbox, position_desc, llm_prompt, resp, result_text, exc, returned>>

\* line 298
Return ==
    /\ pc = "loop"
    /\ idx > Len(files)
    /\ pc' = "done"
    /\ returned' = selected_ids
    /\ UNCHANGED <<crops_dir, prompt, crop_info, img_w, files, selected_ids, p,
                   is_directional, target_llm_answer, preloop_answer, idx,
                   person_id, frame_id, crop, bbox, position_desc, llm_prompt,
                   resp, result_text, clean_response, is_selected, exc, trace>>

Next == Start \/ LoopHead \/ Encode \/ Post \/ ReadStream \/ Decide \/ Return

Spec == Init /\ [][Next]_vars

----------------------------------------------------------------------------
(* The enumeration alone: the files of a directory and the order in which  *)
(* the loop of line 133 takes them.  The body of the loop changes neither  *)
(* files nor the loop counter, and is left out here.                       *)

InitEnum ==
    /\ pc = "start"
    /\ crops_dir \in EnumDirs
    /\ prompt = "car on the left"
    /\ crop_info = <<>>
    /\ img_w = DefaultImgW
    /\ bbox = <<>>
    /\ InitLocals

\* lines 133-135: the next file of the loop
Iterate ==
    /\ pc = "loop"
    /\ idx <= Len(files)
    /\ LET fname == basename(files[idx])
       IN  /\ person_id' = parse_filename(fname)[1]
           /\ frame_id' = parse_filename(fname)[2]
           /\ trace' = Append(trace, Event("file", idx, fname, FALSE))
    /\ idx' = idx + 1
    /\ UNCHANGED <<pc, crops_dir, prompt, crop_info, img_w, files, selected_ids, p,
                   is_directional, target_llm_answer, preloop_answer, crop, bbox,
                   position_desc, llm_prompt, resp, result_text, clean_response,
                   is_selected, exc, returned>>

NextEnum == Start \/ Iterate \/ Return

SpecEnum == InitEnum /\ [][NextEnum]_vars

----------------------------------------------------------------------------
(* The horizontal band alone, over every box and width within the bound.   *)

InitBand ==
    /\ pc = "band"
    /\ crops_dir = Directory(FALSE, <<>>)
    /\ prompt = "car on the left"
    /\ crop_info = <<>>
    /\ img_w \in 1..MaxPixel
    /\ bbox \in { <<Box(x1, x2)>> : x1 \in 0..MaxPixel, x2 \in 0..MaxPixel }
    /\ InitLocals

\* lines 192-202
ComputeBand ==
    /\ pc = "band"
    /\ position_desc' = PositionDesc(RelX(bbox[1], img_w))
    /\ pc' = "banded"
    /\ UNCHANGED <<crops_dir, prompt, crop_info, img_w, files, selected_ids, p,
                   is_directional, target_llm_answer, preloop_answer, idx,
                   person_id, frame_id, crop, bbox, llm_prompt, resp, result_text,
                   clean_response, is_selected, exc, returned, trace>>

NextBand == ComputeBand

SpecBand == InitBand /\ [][NextBand]_vars

----------------------------------------------------------------------------
(* What the claims speak of.                                               *)

\* the events of one kind, in order
EventsOf(ev) == SelectSeq(trace, LAMBDA e : e.ev = ev)

\* the basenames of the files the loop has taken, in order
Visited == [i \in 1..Len(EventsOf("file")) |-> EventsOf("file")[i].fname]

\* the (frameId, trackId) pair the claim orders by
FrameTrack(fname) == <<parse_filename(fname)[2], parse_filename(fname)[1]>>

\* the basename matches i<digits>_f<digits>
MatchesPattern(fname) == MatchGroups(fname) # <<>>

\* the .jpg/.png regular files of the directory
ImageNames ==
    { crops_dir.listing[i].name : i \in
        { j \in 1..Len(crops_dir.listing) :
            /\ crops_dir.listing[j].isfile
            /\ \/ EndsWith(crops_dir.listing[j].name, ".jpg")
               \/ EndsWith(crops_dir.listing[j].name, ".png") } }

\* a decision has just been taken: result_text and is_selected are those of
\* the file of the last event
JustDecided == trace # <<>> /\ trace[Len(trace)].ev = "decided"

\* the boolean of a {"match": <bool>, ...} fragment of the text, if there is one
MatchFragment(text) ==
    IF Contains("{\"match\": true", text) THEN "true"
    ELSE IF Contains("{\"match\": false", text) THEN "false"
    ELSE "none"

\* the response fields, in order, of the lines that are JSON objects with a
\* text response field
RECURSIVE ResponseFields(_)
ResponseFields(lines) ==
    IF lines = <<>> THEN ""
    ELSE LET l == Head(lines)
         IN  (IF /\ l.bytes = "json" /\ l.json.t = "dict"
                 /\ "response" \in l.json.keys /\ l.json.resp.t = "str"
              THEN l.json.resp.s ELSE "")
             \o ResponseFields(Tail(lines))

----------------------------------------------------------------------------
(* The claims.                                                             *)

\* C1: the files are taken in ascending order of (frameId, trackId) as
\* parse_filename reads them from the basename; a basename that does not match
\* the pattern is keyed (-1, -1) and is taken before every one that matches;
\* the files taken are the .jpg/.png regular files of the directory.
C1_ProcessingOrder ==
    /\ \A i, j \in 1..Len(Visited) :
          i < j => ~TupleLess(FrameTrack(Visited[j]), FrameTrack(Visited[i]))
    /\ \A i, j \in 1..Len(Visited) :
          ~MatchesPattern(Visited[i]) /\ MatchesPattern(Visited[j]) => i < j
    /\ \A i \in 1..Len(Visited) :
          ~MatchesPattern(Visited[i]) => FrameTrack(Visited[i]) = <<-1, -1>>
    /\ \A i \in 1..Len(Visited) : Visited[i] = basename(files[i])
    /\ pc = "done" =>
          /\ { Visited[i] : i \in 1..Len(Visited) } = ImageNames
          /\ Len(Visited) = Cardinality(ImageNames)

\* C1 witness: three files were taken, in another order than the directory
\* listed them, a file without the pattern among them.
C1_Witness ==
    /\ pc = "done"
    /\ Len(Visited) = 3
    /\ \E i \in 1..3 : ~MatchesPattern(Visited[i])
    /\ \E i \in 1..3 : Visited[i] # crops_dir.listing[i].name
    /\ FrameTrack(Visited[2])[2] > FrameTrack(Visited[3])[2]

\* C2: a network or HTTP failure of a file's request, at the connection or
\* while the response is streamed, never leaves select_targets as an exception.
C2_NetworkFailureCaught ==
    ~(pc = "raised" /\ exc \in RequestFailures \cup {"ChunkedEncodingError"})

\* C3: no input makes select_targets raise.
C3_NeverRaises == pc # "raised"

\* C4: when the reply holds a {"match": <bool>} fragment, the decision is the
\* fragment's boolean, whatever keywords the reply holds.
C4_FragmentDecides ==
    JustDecided =>
        /\ MatchFragment(result_text) = "true" => is_selected
        /\ MatchFragment(result_text) = "false" => ~is_selected

\* C5: for a query that contains cars-in-the-counter-direction-of-ours, a file
\* is selected if and only if its trimmed, upper-cased reply holds TOWARDS as a
\* whole word.
C5_CounterQueryTowards ==
    JustDecided /\ Contains("cars-in-the-counter-direction-of-ours", Lower(prompt))
        => (is_selected <=> WordSearch("TOWARDS", Upper(Strip(result_text))))

\* C6: a line of the stream that is empty, undecodable, not JSON or not a JSON
\* object with a text response field is skipped: reading a stream that the
\* connection delivers whole never raises, and the reply text is the
\* concatenation of the response fields of the other lines.
C6_MalformedLinesSkipped ==
    resp.status = "read" /\ ~resp.broken =>
        /\ pc # "raised"
        /\ result_text = ResponseFields(resp.lines)

\* C7: the list returned is, in the order the files were taken, the trackId of
\* each file decided positively, once per such file and nothing else.
C7_ResultIsPositives ==
    pc = "done" =>
        /\ Len(returned) = Len(SelectSeq(EventsOf("decided"), LAMBDA e : e.selected))
        /\ \A i \in 1..Len(returned) :
              returned[i] = parse_filename(
                  SelectSeq(EventsOf("decided"), LAMBDA e : e.selected)[i].fname)[1]

\* C7 witness: two selected files share a trackId, which is returned twice.
C7_Witness ==
    /\ pc = "done"
    /\ Len(returned) = 2
    /\ returned[1] = returned[2]

\* C8: the band is left iff rel_x < 0.35, right iff rel_x > 0.65 and center
\* otherwise, with rel_x = ((x1+x2)/2)/width; 0.35 and 0.65 are center.
C8_Bands ==
    pc = "banded" =>
        LET sum == bbox[1].x1 + bbox[1].x2
            left == position_desc = "on the left side of the road"
            right == position_desc = "on the right side of the road"
            center == position_desc = "in the center or directly ahead"
        IN  /\ left <=> 100 * sum < 70 * img_w
            /\ right <=> 100 * sum > 130 * img_w
            /\ center <=> ~(100 * sum < 70 * img_w) /\ ~(100 * sum > 130 * img_w)
            /\ 10 * sum = 7 * img_w \/ 10 * sum = 13 * img_w => center

\* C8 witness: a box whose rel_x is exactly 0.35 was classified.
C8_Witness ==
    /\ pc = "banded"
    /\ 10 * (bbox[1].x1 + bbox[1].x2) = 7 * img_w
    /\ position_desc = "in the center or directly ahead"

\* C9: requests are issued one at a time in the order of the files, at most one
\* per file, each after the request before it has failed or been decided; a
\* file whose request failed is not requested or selected afterwards.
C9_OneRequestAtATime ==
    /\ \A k \in 1..Len(trace) :
          trace[k].ev = "post" =>
              /\ trace[k].fname = basename(files[trace[k].idx])
              /\ \A j \in 1..(k - 1) :
                    /\ trace[j].idx <= trace[k].idx
                    /\ trace[j].idx = trace[k].idx => trace[j].ev = "file"
                    /\ trace[j].ev = "post" =>
                          \E m \in (j + 1)..(k - 1) :
                              /\ trace[m].idx = trace[j].idx
                              /\ trace[m].ev \in {"failed", "decided"}
    /\ \A j \in 1..Len(trace) :
          trace[j].ev = "failed" =>
              \A m \in (j + 1)..Len(trace) : trace[m].idx # trace[j].idx

\* C9 witness: the first file's request failed, the second file was then
\* requested and selected.
C9_Witness ==
    /\ Len(trace) >= 6
    /\ trace[3].ev = "failed" /\ trace[3].idx = 1
    /\ trace[5].ev = "post" /\ trace[5].idx = 2
    /\ trace[6].ev = "decided" /\ trace[6].selected

\* C10: for a directional query, the expected token at each file's decision
\* step is the one resolved from DIRECTION_MAP before the loop, and is not None.
C10_ExpectedTokenKept ==
    pc = "decide" /\ is_directional =>
        /\ target_llm_answer # None
        /\ target_llm_answer = preloop_answer

====
